---- MODULE Spec2Model ----
(***************************************************************************)
(* Feed aggregation and like mutation of the MiddleGround backend:         *)
(* the tables of the schema, the stored procedures the controller calls    *)
(* and the handlers of controllers/feedController.js, one action per       *)
(* storage round-trip of a handler (every await is a suspension point at   *)
(* which other requests may run).                                          *)
(***************************************************************************)
EXTENDS Integers, Sequences, FiniteSets, Bags, TLC

VARIABLES Users, PostsData, Comments, Likes, inflight, reader, sent, lastAdd,
          lastInsertId, listed

vars == <<Users, PostsData, Comments, Likes, inflight, reader, sent, lastAdd,
          lastInsertId, listed>>

\* ------------------------------------------------------------------------
\* Bounds and input sets
\* ------------------------------------------------------------------------

\* number of mutation requests that may be in flight at the same time
MaxReq == 2

\* number of connections the pool may open (connectionLimit is 10)
MaxConn == 2

\* number of rows PostsData and Comments may each grow to
MaxRows == 4

\* latest value of the clock behind CURRENT_TIMESTAMP
MaxDate == 1

\* the seven-point scale, ENUM of Users.polLean and Likes.polLean
Leanings == {"FL", "L", "SL", "M", "SR", "R", "FR"}

\* the order in which the handlers write the zero-filled object
LeaningOrder == <<"FL", "L", "SL", "M", "SR", "R", "FR">>

\* ENUM of Likes.entityType
EntityTypes == {"POST", "COMMENT"}

\* registered users of the initial database
Usernames == {"janedoe", "mark123"}

\* principals a request may carry: the registered users and one that is
\* absent from Users
Principals == Usernames \cup {"nobody"}

\* entityType values a request body may carry
TypeInputs == EntityTypes \cup {"USER"}

\* entityID values of like requests under concurrency: 1 is both a post and
\* a comment, 3 is neither
LikeIDInputs == {1, 3}

\* values of the page, limit and sortBy query parameters ("" when absent)
PageInputs == {"1", "2"}

LimitInputs == {"", "1"}

PostSortInputs == {"", "recent", "balanced", "controversial", "right", "left",
                   "moderate", "xyz"}

CommentSortInputs == {"", "recent", "controversial", "balanced", "oldest",
                      "xyz"}

\* values of the limit parameter of the listings
ListLimitInputs == {"", "1", "2"}

\* leanings janedoe is registered under in the listings
ListLeanings == {"L", "M", "SR"}

\* values of the title and body fields of a request body ("" when absent)
TextInputs == {"", "text"}

\* values of the postID and parentCommentID fields of addComment: absent,
\* a stored post and comment, neither a post nor a comment
CommentRefInputs == {0, 1, 3}

\* SQL NULL in a column of identifiers, which start at 1
NULL == 0

\* values of the parentID query parameter of getComments (NULL when absent)
ParentInputs == {NULL, 1}

\* ------------------------------------------------------------------------
\* Storage: tables and statements
\* ------------------------------------------------------------------------

\* SELECT polLean FROM Users WHERE username = ?
SelectPolLean(username) ==
    IF username \in DOMAIN Users
    THEN <<[polLean |-> Users[username]]>>
    ELSE <<>>

\* SelectPost of a query without its WHERE clause
SelectPostAnyID(postID) == PostsData

\* SELECT postID FROM PostsData WHERE postID = ?
SelectPost(postID) == {p \in PostsData : p.postID = postID}

\* SELECT commentID FROM Comments WHERE commentID = ?
SelectComment(commentID) == {c \in Comments : c.commentID = commentID}

\* LikeRowsOf of statements whose WHERE clause lacks entityType = ?
LikeRowsOfAnyType(username, entityType, entityID) ==
    {r \in DOMAIN Likes : /\ r.username = username
                          /\ r.entityID = entityID}

\* the rows of Likes matching (username, entityType, entityID, "")
LikeRowsOf(username, entityType, entityID) ==
    {r \in DOMAIN Likes : /\ r.username = username
                          /\ r.entityType = entityType
                          /\ r.entityID = entityID}

\* number of rows (copies counted) of a set of distinct rows of Likes
RECURSIVE CountRows(_)
CountRows(rows) ==
    IF rows = {} THEN 0
    ELSE LET r == CHOOSE x \in rows : TRUE
         IN  Likes[r] + CountRows(rows \ {r})

\* IF EXISTS (SELECT 1 FROM Likes WHERE username = .. AND entityType = ..
\* AND entityID = ..) of insertLike
LikeExists(username, entityType, entityID) ==
    LikeRowsOf(username, entityType, entityID) # {}

\* the message of the error a violation of unique_like raises
DupEntry == "Duplicate entry for key 'unique_like'"

\* InsertLikeError of a Likes table declared without UNIQUE KEY unique_like
InsertLikeErrorNoKey(row) ==
    IF row.username \notin DOMAIN Users
    THEN "Cannot add or update a child row: a foreign key constraint fails"
    ELSE ""

\* UNIQUE KEY unique_like (username, entityType, entityID) and the foreign
\* key on username: the error an INSERT of the row raises, "" when none
InsertLikeError(row) ==
    IF LikeRowsOf(row.username, row.entityType, row.entityID) # {}
    THEN DupEntry
    ELSE IF row.username \notin DOMAIN Users
    THEN "Cannot add or update a child row: a foreign key constraint fails"
    ELSE ""

\* INSERT INTO Likes (username, entityType, entityID, polLean) VALUES (..)
InsertLikeRow(row) == Likes (+) SetToBag({row})

\* DeleteLikeRows of a DELETE whose WHERE clause lacks username = ?
DeleteLikeRowsAnyUser(username, entityType, entityID) ==
    LET gone == {r \in DOMAIN Likes : /\ r.entityType = entityType
                                      /\ r.entityID = entityID}
    IN  [r \in (DOMAIN Likes) \ gone |-> Likes[r]]

\* DELETE FROM Likes WHERE username = ? AND entityType = ? AND entityID = ?
DeleteLikeRows(username, entityType, entityID) ==
    LET gone == LikeRowsOf(username, entityType, entityID)
    IN  [r \in (DOMAIN Likes) \ gone |-> Likes[r]]

\* affectedRows of that DELETE
AffectedRows(username, entityType, entityID) ==
    CountRows(LikeRowsOf(username, entityType, entityID))

\* LikeCounts of a query whose WHERE clause lacks entityType = ?
LikeCountsAnyType(entityType, entityID) ==
    LET rows == {r \in DOMAIN Likes : r.entityID = entityID}
    IN  {[polLean |-> l,
          count   |-> CountRows({r \in rows : r.polLean = l})] :
            l \in {r.polLean : r \in rows}}

\* LikeCounts of a query that groups by the leaning joined from Users
LikeCountsLiveJoin(entityType, entityID) ==
    LET rows == {r \in DOMAIN Likes : /\ r.entityType = entityType
                                      /\ r.entityID = entityID}
    IN  {[polLean |-> l,
          count   |-> CountRows({r \in rows : Users[r.username] = l})] :
            l \in {Users[r.username] : r \in rows}}

\* SELECT polLean, COUNT(*) as count FROM Likes
\* WHERE entityType = ? AND entityID = ? GROUP BY polLean
LikeCounts(entityType, entityID) ==
    LET rows == {r \in DOMAIN Likes : /\ r.entityType = entityType
                                      /\ r.entityID = entityID}
    IN  {[polLean |-> l,
          count   |-> CountRows({r \in rows : r.polLean = l})] :
            l \in {r.polLean : r \in rows}}

\* ------------------------------------------------------------------------
\* Like aggregation in the handlers
\* ------------------------------------------------------------------------

\* ZeroLikes of a literal with an eighth key
ZeroLikesEighthKey == [l \in Leanings \cup {"C"} |-> 0]

\* { 'FL': 0, 'L': 0, 'SL': 0, 'M': 0, 'SR': 0, 'R': 0, 'FR': 0 }
ZeroLikes == [l \in {LeaningOrder[k] : k \in 1..Len(LeaningOrder)} |-> 0]

\* likeCounts.forEach(like => { likes[like.polLean] = like.count; })
\* on top of the zero-filled object: an assignment adds the key if absent
FormatLikes(likeCounts) ==
    LET zero == ZeroLikes
        keys == (DOMAIN zero) \cup {g.polLean : g \in likeCounts}
    IN  [l \in keys |->
            IF \E g \in likeCounts : g.polLean = l
            THEN (CHOOSE g \in likeCounts : g.polLean = l).count
            ELSE zero[l]]

\* Object.values(likes).reduce((sum, count) => sum + count, 0)
RECURSIVE SumOver(_, _)
SumOver(likes, keys) ==
    IF keys = {} THEN 0
    ELSE LET k == CHOOSE x \in keys : TRUE
         IN  likes[k] + SumOver(likes, keys \ {k})

\* TotalLikes of a handler that adds up the left and right counts only
TotalLikesNoModerate(likes) == SumOver(likes, (DOMAIN likes) \ {"M"})

TotalLikes(likes) == SumOver(likes, DOMAIN likes)

\* RightLikes of a handler that leaves out the SR count
RightLikesNoSR(likes) == likes["FR"] + likes["R"]

\* likes['FR'] + likes['R'] + likes['SR']
RightLikes(likes) == likes["FR"] + likes["R"] + likes["SR"]

\* likes['FL'] + likes['L'] + likes['SL']
LeftLikes(likes) == likes["FL"] + likes["L"] + likes["SL"]

\* likes['M']
ModerateLikes(likes) == likes["M"]

\* Math.abs(rightLikes - leftLikes)
Abs(n) == IF n < 0 THEN 0 - n ELSE n

PolarizationScore(likes) == Abs(RightLikes(likes) - LeftLikes(likes))

\* ------------------------------------------------------------------------
\* Query parameters, ordering and pagination
\* ------------------------------------------------------------------------

\* parseInt of a query parameter: NaN for an absent or non-numeric one
ParseInt(raw) ==
    CASE raw = "0"  -> [nan |-> FALSE, val |-> 0]
      [] raw = "1"  -> [nan |-> FALSE, val |-> 1]
      [] raw = "2"  -> [nan |-> FALSE, val |-> 2]
      [] raw = "3"  -> [nan |-> FALSE, val |-> 3]
      [] raw = "-1" -> [nan |-> FALSE, val |-> 0 - 1]
      [] OTHER      -> [nan |-> TRUE, val |-> 0]

\* parseInt(raw) || default: NaN and 0 are falsy
ParseIntOr(raw, default) ==
    LET parsed == ParseInt(raw)
    IN  IF parsed.nan \/ parsed.val = 0 THEN default ELSE parsed.val

\* req.query.sortBy || 'recent'
SortByOr(raw) == IF raw = "" THEN "recent" ELSE raw

\* const limit = parseInt(req.query.limit) || 10 of getPosts
DefaultPostsLimit == 10

\* const limit = parseInt(req.query.limit) || 20 of getComments
DefaultCommentsLimit == 20

\* Math.floor in the place of Math.ceil: the last, partial page is not
\* counted
CeilFloor(total, limit) == total \div limit

\* Math.ceil(total / limit) for a positive limit
Ceil(total, limit) == (total + limit - 1) \div limit

\* COUNT(*) of the likes of an entity whose polLean is in leanings
CountLikes(entityType, entityID, leanings) ==
    CountRows({r \in DOMAIN Likes : /\ r.entityType = entityType
                                    /\ r.entityID = entityID
                                    /\ r.polLean \in leanings})

\* the ORDER BY expressions with a default branch that sorts by datePosted
\* ascending where sortBy is not recent
OrderKeyUnknownOldest(entityType, sortBy, id, datePosted) ==
    LET right == CountLikes(entityType, id, {"FR", "R", "SR"})
        left  == CountLikes(entityType, id, {"FL", "L", "SL"})
        mod   == CountLikes(entityType, id, {"M"})
        total == CountLikes(entityType, id, Leanings)
    IN  CASE sortBy = "balanced" -> <<Abs(right - left), 0 - datePosted>>
          [] sortBy = "controversial" -> <<0 - total, 0 - datePosted>>
          [] sortBy = "right" /\ entityType = "POST" ->
                <<0 - right, 0 - datePosted>>
          [] sortBy = "left" /\ entityType = "POST" ->
                <<0 - left, 0 - datePosted>>
          [] sortBy = "moderate" /\ entityType = "POST" ->
                <<0 - mod, 0 - datePosted>>
          [] sortBy = "oldest" /\ entityType = "COMMENT" ->
                <<datePosted, 0>>
          [] sortBy = "recent" -> <<0 - datePosted, 0>>
          [] OTHER -> <<datePosted, 0>>

\* the ORDER BY expressions of a listing of entities of entityType, as a
\* pair of keys to sort in ascending order: a DESC key is negated
OrderKey(entityType, sortBy, id, datePosted) ==
    LET right == CountLikes(entityType, id, {"FR", "R", "SR"})
        left  == CountLikes(entityType, id, {"FL", "L", "SL"})
        mod   == CountLikes(entityType, id, {"M"})
        total == CountLikes(entityType, id, Leanings)
    IN  CASE sortBy = "balanced" -> <<Abs(right - left), 0 - datePosted>>
          [] sortBy = "controversial" -> <<0 - total, 0 - datePosted>>
          [] sortBy = "right" /\ entityType = "POST" ->
                <<0 - right, 0 - datePosted>>
          [] sortBy = "left" /\ entityType = "POST" ->
                <<0 - left, 0 - datePosted>>
          [] sortBy = "moderate" /\ entityType = "POST" ->
                <<0 - mod, 0 - datePosted>>
          [] sortBy = "oldest" /\ entityType = "COMMENT" ->
                <<datePosted, 0>>
          [] OTHER -> <<0 - datePosted, 0>>

\* a comparison on the first ORDER BY expression alone: the datePosted
\* tie-break is dropped
KeyLessPrimaryOnly(a, b) == a[1] < b[1]

\* key a sorts strictly before key b
KeyLess(a, b) == a[1] < b[1] \/ (a[1] = b[1] /\ a[2] < b[2])

\* the sequences without repetition of all the rows of a set
Perms(rows) ==
    {s \in [1..Cardinality(rows) -> rows] :
        \A i, j \in 1..Cardinality(rows) : i # j => s[i] # s[j]}

\* the orders in which the storage may return rows under ORDER BY, key
\* giving the sort key of each row: rows
\* with equal keys come in any order
Orderings(rows, key) ==
    {s \in Perms(rows) :
        \A i, j \in 1..Len(s) : i < j => ~KeyLess(key[s[j]], key[s[i]])}

\* LIMIT limit OFFSET offset
Page(ordered, limit, offset) ==
    [k \in 1..(IF Len(ordered) - offset < limit
               THEN (IF Len(ordered) - offset < 0 THEN 0
                     ELSE Len(ordered) - offset)
               ELSE limit) |-> ordered[offset + k]]

\* the storage rejects a negative LIMIT or OFFSET
BadWindow(limit, offset) == limit < 0 \/ offset < 0

\* ------------------------------------------------------------------------
\* Requests and responses
\* ------------------------------------------------------------------------

Idle == [op |-> "idle"]

\* the mutation requests in flight are a bag: the pool serves requests that
\* are equal in every field alike
Accept(r) == inflight (+) SetToBag({r})

Finish(r) == inflight (-) SetToBag({r})

Advance(r, r2) == (inflight (-) SetToBag({r})) (+) SetToBag({r2})

\* a connection of the pool is free for one more request
CanAccept == BagCardinality(inflight) < MaxReq

NoResponse == [op |-> "none"]

NoAdd == [stage |-> "none"]

\* the value of lastAdd in the specifications that keep no history
NoHistory == [stage |-> "off"]

\* res.status(status).json(body) of handler op, with the request it answers
\* and the message of the storage error that led to it ("" when none)
Response(op, status, body, username, entityType, entityID, cause) ==
    [op |-> op, status |-> status, body |-> body,
     username |-> username, entityType |-> entityType, entityID |-> entityID,
     cause |-> cause]

\* the response of a handler that had sent queries statements to the
\* storage, db.query calls counted in the order of the handler, by the time
\* it answered
Issued(queries, response) == [queries |-> queries] @@ response

\* the value of listed in the specifications that keep no listing history
ListingOff == [stage |-> "off"]

NoListing == [stage |-> "none"]

\* the pages a client has collected by requesting pages 1, 2, ... of one
\* listing (handler, scope, sortBy, limit) in sequence: the identifiers of
\* each page and the total of the first response. A repeated page leaves
\* the collection as it is, page 1 of another listing starts a new one, any
\* other request drops it
TrackListing(listing, page, ids, total) ==
    IF listed = ListingOff THEN ListingOff
    ELSE IF listed.stage = "pages" /\ listed.listing = listing
              /\ page = Len(listed.pages) + 1
    THEN [listed EXCEPT !.pages = Append(@, ids)]
    ELSE IF listed.stage = "pages" /\ listed.listing = listing
              /\ page <= Len(listed.pages)
    THEN listed
    ELSE IF page = 1
    THEN [stage |-> "pages", listing |-> listing, pages |-> <<ids>>,
          total |-> total]
    ELSE NoListing

\* the seven counts of an entity read off the table: for each leaning the
\* number of rows of Likes on (entityType, entityID) with that leaning
Distribution(entityType, entityID) ==
    [l \in Leanings |->
        CountRows({r \in DOMAIN Likes : /\ r.entityType = entityType
                                        /\ r.entityID = entityID
                                        /\ r.polLean = l})]

\* the record of the last successful insert of a like, dropped by any other
\* change of Likes: (username, entityType, entityID), the distribution of
\* the entity before the insert and the leaning inserted
TrackInsert(row) ==
    IF lastAdd = NoHistory THEN NoHistory ELSE
    [stage |-> "added", username |-> row.username,
     entityType |-> row.entityType, entityID |-> row.entityID,
     polLean |-> row.polLean,
     pre |-> Distribution(row.entityType, row.entityID)]

\* a delete following the recorded insert with nothing in between, of the
\* same triple, keeps the record; any other delete drops it
TrackDelete(username, entityType, entityID) ==
    IF lastAdd = NoHistory THEN NoHistory
    ELSE IF /\ lastAdd.stage = "added"
       /\ lastAdd.username = username
       /\ lastAdd.entityType = entityType
       /\ lastAdd.entityID = entityID
    THEN [lastAdd EXCEPT !.stage = "removed"]
    ELSE NoAdd

\* ------------------------------------------------------------------------
\* addLike
\* ------------------------------------------------------------------------

\* AddLikeValidate of a handler that validates the entity type first
AddLikeValidateTypeFirst(users, entityType) ==
    IF entityType \notin {"POST", "COMMENT"}
    THEN "Entity type must be either POST or COMMENT"
    ELSE IF Len(users) = 0 THEN "User not found"
    ELSE ""

\* the two checks addLike makes once the user lookup has returned, in the
\* order of the handler
AddLikeValidate(users, entityType) ==
    IF Len(users) = 0 THEN "User not found"
    ELSE IF entityType \notin {"POST", "COMMENT"}
    THEN "Entity type must be either POST or COMMENT"
    ELSE ""

\* addLike, from the entry of the handler to its first suspension after the
\* user lookup: user not found (404), invalid entity type (400), or on to the
\* entity lookup
AddLike(username, entityType, entityID) ==
    /\ CanAccept
    /\ LET users == SelectPolLean(username)
           failed == AddLikeValidate(users, entityType)
       IN  IF failed = "User not found"
           THEN /\ sent' = Issued(1, Response("addLike", 404,
                     [success |-> FALSE, message |-> "User not found"],
                     username, entityType, entityID, ""))
                /\ inflight' = inflight
           ELSE IF failed # ""
           THEN /\ sent' = Issued(1, Response("addLike", 400,
                     [success |-> FALSE, message |-> failed],
                     username, entityType, entityID, ""))
                /\ inflight' = inflight
           ELSE /\ sent' = NoResponse
                /\ inflight' = Accept(
                     [op |-> "addLike", pc |-> "entity",
                      username |-> username, entityType |-> entityType,
                      entityID |-> entityID,
                      userPolLean |-> users[1].polLean])
    /\ UNCHANGED <<Users, PostsData, Comments, Likes, reader, lastAdd,
                   lastInsertId, listed>>

\* the entity lookup of addLike: 404 when the post or comment is absent
AddLikeEntity(r) ==
    /\ BagIn(r, inflight)
    /\ r.op = "addLike"
    /\ r.pc = "entity"
    /\ LET entityExists ==
               IF r.entityType = "POST"
               THEN Cardinality(SelectPost(r.entityID)) > 0
               ELSE Cardinality(SelectComment(r.entityID)) > 0
       IN  IF ~entityExists
           THEN /\ sent' = Issued(2, Response("addLike", 404,
                     [success |-> FALSE,
                      message |-> IF r.entityType = "POST"
                                  THEN "post not found"
                                  ELSE "comment not found"],
                     r.username, r.entityType, r.entityID, ""))
                /\ inflight' = Finish(r)
           ELSE /\ sent' = NoResponse
                /\ inflight' = Advance(r, [r EXCEPT !.pc = "call"])
    /\ UNCHANGED <<Users, PostsData, Comments, Likes, reader, lastAdd,
                   lastInsertId, listed>>

\* AddLikeCatch of a handler whose catch compares against a message the
\* procedure never signals
AddLikeCatchWrongMessage(message) ==
    IF message = "Like already exists" THEN 409 ELSE 500

\* the inner catch of addLike: the status answered for an error raised by
\* CALL insertLike
AddLikeCatch(message) ==
    IF message = "Like Already Exists" THEN 409 ELSE 500

\* the body answered with that status
AddLikeCatchBody(message) ==
    IF AddLikeCatch(message) = 409
    THEN [success |-> FALSE, message |-> "You have already liked this item"]
    ELSE [success |-> FALSE, message |-> "Server error while adding like"]

\* CALL insertLike, first statement: the existence check, which signals
\* 'Like Already Exists'
InsertLikeCheck(r) ==
    /\ BagIn(r, inflight)
    /\ r.op = "addLike"
    /\ r.pc = "call"
    /\ IF LikeExists(r.username, r.entityType, r.entityID)
           THEN /\ sent' = Issued(3, Response("addLike",
                     AddLikeCatch("Like Already Exists"),
                     AddLikeCatchBody("Like Already Exists"),
                     r.username, r.entityType, r.entityID,
                     "Like Already Exists"))
                /\ inflight' = Finish(r)
           ELSE /\ sent' = NoResponse
                /\ inflight' = Advance(r, [r EXCEPT !.pc = "insert"])
    /\ UNCHANGED <<Users, PostsData, Comments, Likes, reader, lastAdd,
                   lastInsertId, listed>>

\* InsertLikeMessage of a procedure that reports success in other words
InsertLikeMessageOther == "Like added"

\* SELECT 'Like Added' AS message, the result set of insertLike once it has
\* inserted the row
InsertLikeMessage == "Like Added"

\* CALL insertLike, second statement: the INSERT, which the unique key may
\* reject; on success the procedure selects its message, and addLike goes
\* on to the count query if (result[0][0].message === 'Like Added'); with
\* any other message the handler returns without sending a response
InsertLikeInsert(r) ==
    /\ BagIn(r, inflight)
    /\ r.op = "addLike"
    /\ r.pc = "insert"
    /\ LET row == [username |-> r.username, entityType |-> r.entityType,
                   entityID |-> r.entityID, polLean |-> r.userPolLean]
           err == InsertLikeError(row)
       IN  IF err # ""
           THEN /\ sent' = Issued(3, Response("addLike", AddLikeCatch(err),
                     AddLikeCatchBody(err),
                     r.username, r.entityType, r.entityID, err))
                /\ inflight' = Finish(r)
                /\ UNCHANGED <<Likes, lastAdd, lastInsertId, listed>>
           ELSE /\ Likes' = InsertLikeRow(row)
                /\ lastAdd' = TrackInsert(row)
                /\ sent' = NoResponse
                /\ inflight' =
                      IF InsertLikeMessage = "Like Added"
                      THEN Advance(r, [r EXCEPT !.pc = "counts"])
                      ELSE Finish(r)
    /\ UNCHANGED <<Users, PostsData, Comments, reader, lastInsertId, listed>>

\* the refreshed distribution of addLike and its 201 response
AddLikeCounts(r) ==
    /\ BagIn(r, inflight)
    /\ r.op = "addLike"
    /\ r.pc = "counts"
    /\ LET likes == FormatLikes(LikeCounts(r.entityType, r.entityID))
       IN  sent' = Issued(4, Response("addLike", 201,
                     [success |-> TRUE,
                      message |-> "Like added successfully",
                      likes |-> likes],
                     r.username, r.entityType, r.entityID, ""))
    /\ inflight' = Finish(r)
    /\ UNCHANGED <<Users, PostsData, Comments, Likes, reader, lastAdd,
                   lastInsertId, listed>>

\* ------------------------------------------------------------------------
\* removeLike
\* ------------------------------------------------------------------------

\* removeLike, from the entry of the handler through the DELETE: invalid
\* entity type (400), no row affected (404), or on to the refreshed counts
RemoveLike(username, entityType, entityID) ==
    /\ CanAccept
    /\ IF entityType \notin {"POST", "COMMENT"}
       THEN /\ sent' = Issued(0, Response("removeLike", 400,
                 [success |-> FALSE,
                  message |-> "Entity type must be either POST or COMMENT"],
                 username, entityType, entityID, ""))
            /\ UNCHANGED <<inflight, Likes, lastAdd, lastInsertId, listed>>
       ELSE IF AffectedRows(username, entityType, entityID) = 0
       THEN /\ sent' = Issued(1, Response("removeLike", 404,
                 [success |-> FALSE, message |-> "Like not found"],
                 username, entityType, entityID, ""))
            /\ UNCHANGED <<inflight, Likes, lastAdd, lastInsertId, listed>>
       ELSE /\ Likes' = DeleteLikeRows(username, entityType, entityID)
            /\ lastAdd' = TrackDelete(username, entityType, entityID)
            /\ sent' = NoResponse
            /\ inflight' = Accept(
                 [op |-> "removeLike", pc |-> "counts",
                  username |-> username, entityType |-> entityType,
                  entityID |-> entityID])
    /\ UNCHANGED <<Users, PostsData, Comments, reader, lastInsertId, listed>>

\* the refreshed distribution of removeLike and its 200 response
RemoveLikeCounts(r) ==
    /\ BagIn(r, inflight)
    /\ r.op = "removeLike"
    /\ r.pc = "counts"
    /\ LET likes == FormatLikes(LikeCounts(r.entityType, r.entityID))
       IN  sent' = Issued(2, Response("removeLike", 200,
                     [success |-> TRUE,
                      message |-> "Like removed successfully",
                      likes |-> likes],
                     r.username, r.entityType, r.entityID, ""))
    /\ inflight' = Finish(r)
    /\ UNCHANGED <<Users, PostsData, Comments, Likes, reader, lastAdd,
                   lastInsertId, listed>>

\* ------------------------------------------------------------------------
\* createPost
\* ------------------------------------------------------------------------

\* the connections the pool has opened, each with its LAST_INSERT_ID(): 0
\* on a connection that has inserted no row
Conns == DOMAIN lastInsertId

\* the open connections no statement of a request in flight is running on
FreeConns ==
    {c \in Conns : \A r \in BagToSet(inflight) :
                      "conn" \in DOMAIN r => r.conn # c}

\* the connections db.query may run a statement on: a free one, which one
\* being the pool's choice, and a new one only when none is free and the
\* pool is below its limit (else the statement waits)
Acquirable ==
    IF FreeConns # {} THEN FreeConns
    ELSE IF Len(lastInsertId) < MaxConn THEN {Len(lastInsertId) + 1}
    ELSE {}

\* lastInsertId once connection c is in use
Opened(c) ==
    IF c \in Conns THEN lastInsertId ELSE Append(lastInsertId, 0)

\* AUTO_INCREMENT of PostsData.postID and of Comments.commentID: no row is
\* ever deleted, so the next value follows the largest one stored
NextPostID == Cardinality(PostsData) + 1

NextCommentID == Cardinality(Comments) + 1

\* the values CURRENT_TIMESTAMP may take for a new row: not before the
\* datePosted of any stored row
Timestamps ==
    {d \in 0..MaxDate :
        \A row \in PostsData \cup Comments : row.datePosted <= d}

\* createPost up to the CALL, which db.query starts on a connection of the
\* pool: 400 when the title or the body is missing
CreatePost(username, title, body) ==
    /\ CanAccept
    /\ IF title = "" \/ body = ""
       THEN /\ sent' = Issued(0, Response("createPost", 400,
                  [success |-> FALSE,
                   message |-> "Title and body are required"],
                  username, "POST", NULL, ""))
            /\ inflight' = inflight
            /\ lastInsertId' = lastInsertId
       ELSE /\ sent' = NoResponse
            /\ \E c \in Acquirable :
                  /\ inflight' = Accept([op |-> "createPost", pc |-> "call",
                                         username |-> username, conn |-> c])
                  /\ lastInsertId' = Opened(c)
    /\ UNCHANGED <<Users, PostsData, Comments, Likes, reader, lastAdd,
                   listed>>

\* CALL insertPost on its connection: the foreign key on username rejects
\* the row of an unknown user, else the row is inserted with the next
\* postID, which becomes the LAST_INSERT_ID() of that connection. The
\* connection is released and db.query starts SELECT LAST_INSERT_ID() on a
\* free connection of the pool
InsertPost(r) ==
    /\ r.op = "createPost"
    /\ r.pc = "call"
    /\ IF r.username \notin DOMAIN Users
       THEN /\ sent' = Issued(1, Response("createPost", 500,
                  [success |-> FALSE,
                   message |-> "Server error while creating post"],
                  r.username, "POST", NULL,
                  "a foreign key constraint fails"))
            /\ inflight' = Finish(r)
            /\ UNCHANGED <<PostsData, lastInsertId>>
       ELSE /\ Cardinality(PostsData) < MaxRows
            /\ \E d \in Timestamps :
                  PostsData' = PostsData \cup
                    {[postID |-> NextPostID, username |-> r.username,
                      datePosted |-> d]}
            /\ lastInsertId' =
                  [lastInsertId EXCEPT ![r.conn] = NextPostID]
            /\ \E c \in FreeConns \cup {r.conn} :
                  inflight' = Advance(r,
                    [r EXCEPT !.pc = "lastid", !.conn = c] @@
                    [inserted |-> NextPostID])
            /\ sent' = NoResponse
    /\ UNCHANGED <<Users, Comments, Likes, reader, lastAdd, listed>>

\* SELECT LAST_INSERT_ID() as postID on its connection, and the 201
\* response carrying it
CreatePostLastId(r) ==
    /\ r.op = "createPost"
    /\ r.pc = "lastid"
    /\ sent' = Issued(2, Response("createPost", 201,
                [success |-> TRUE,
                 message |-> "Post created successfully",
                 postID |-> lastInsertId[r.conn]],
                r.username, "POST", r.inserted, ""))
    /\ inflight' = Finish(r)
    /\ UNCHANGED <<Users, PostsData, Comments, Likes, reader, lastAdd,
                   lastInsertId, listed>>

\* ------------------------------------------------------------------------
\* addComment
\* ------------------------------------------------------------------------

\* addComment up to the CALL: 400 when the body is missing or when neither
\* postID nor parentCommentID is given; postID || null and
\* parentCommentID || null are what the CALL passes
AddComment(username, postID, parentCommentID, body) ==
    /\ CanAccept
    /\ IF body = ""
       THEN /\ sent' = Issued(0, Response("addComment", 400,
                  [success |-> FALSE,
                   message |-> "Comment body is required"],
                  username, "COMMENT", NULL, ""))
            /\ inflight' = inflight
            /\ lastInsertId' = lastInsertId
       ELSE IF postID = NULL /\ parentCommentID = NULL
       THEN /\ sent' = Issued(0, Response("addComment", 400,
                  [success |-> FALSE,
                   message |->
                     "Either postID or parentCommentID must be provided"],
                  username, "COMMENT", NULL, ""))
            /\ inflight' = inflight
            /\ lastInsertId' = lastInsertId
       ELSE /\ sent' = NoResponse
            /\ \E c \in Acquirable :
                  /\ inflight' = Accept(
                       [op |-> "addComment", pc |-> "call",
                        username |-> username, postID |-> postID,
                        parentCommentID |-> parentCommentID, conn |-> c])
                  /\ lastInsertId' = Opened(c)
    /\ UNCHANGED <<Users, PostsData, Comments, Likes, reader, lastAdd,
                   listed>>

\* the error insertComment raises for its arguments, "" when it inserts:
\* the referenced post or comment must exist, and the foreign key on
\* username must hold
InsertCommentError(username, postID, parentCommentID) ==
    IF postID # NULL /\ SelectPost(postID) = {}
    THEN "Invalid Post ID"
    ELSE IF parentCommentID # NULL /\ SelectComment(parentCommentID) = {}
    THEN "Invalid Comment ID"
    ELSE IF username \notin DOMAIN Users
    THEN "a foreign key constraint fails"
    ELSE ""

\* CALL insertComment(postID, username, parentCommentID, body) on its
\* connection: any error goes to the catch of addComment, which answers
\* 500; else the row is inserted with the columns as passed, the connection
\* is released and db.query starts SELECT LAST_INSERT_ID() on a free
\* connection of the pool
InsertComment(r) ==
    /\ r.op = "addComment"
    /\ r.pc = "call"
    /\ LET error == InsertCommentError(r.username, r.postID,
                                       r.parentCommentID)
       IN  IF error # ""
           THEN /\ sent' = Issued(1, Response("addComment", 500,
                      [success |-> FALSE,
                       message |-> "Server error while adding comment"],
                      r.username, "COMMENT", NULL, error))
                /\ inflight' = Finish(r)
                /\ UNCHANGED <<Comments, lastInsertId>>
           ELSE /\ Cardinality(Comments) < MaxRows
                /\ \E d \in Timestamps :
                      Comments' = Comments \cup
                        {[commentID |-> NextCommentID,
                          postID |-> r.postID,
                          parentCommentID |-> r.parentCommentID,
                          username |-> r.username, datePosted |-> d]}
                /\ lastInsertId' =
                      [lastInsertId EXCEPT ![r.conn] = NextCommentID]
                /\ \E c \in FreeConns \cup {r.conn} :
                      inflight' = Advance(r,
                        [r EXCEPT !.pc = "lastid", !.conn = c] @@
                        [inserted |-> NextCommentID])
                /\ sent' = NoResponse
    /\ UNCHANGED <<Users, PostsData, Likes, reader, lastAdd, listed>>

\* SELECT LAST_INSERT_ID() as commentID on its connection, and the 201
\* response carrying it
AddCommentLastId(r) ==
    /\ r.op = "addComment"
    /\ r.pc = "lastid"
    /\ sent' = Issued(2, Response("addComment", 201,
                [success |-> TRUE,
                 message |-> "Comment added successfully",
                 commentID |-> lastInsertId[r.conn]],
                r.username, "COMMENT", r.inserted, ""))
    /\ inflight' = Finish(r)
    /\ UNCHANGED <<Users, PostsData, Comments, Likes, reader, lastAdd,
                   lastInsertId, listed>>

\* ------------------------------------------------------------------------
\* getPosts
\* ------------------------------------------------------------------------

\* the row the posts query of getPosts and getPostById selects for post p
\* joined with its author u (titles, bodies and names are not modelled)
PostRow(p) ==
    [postID |-> p.postID, datePosted |-> p.datePosted,
     username |-> p.username, polLean |-> Users[p.username]]

\* (SELECT COUNT(*) FROM Comments WHERE postID = p.postID) AS commentCount
CommentCount(postID) == Cardinality({c \in Comments : c.postID = postID})

\* FROM PostsData p JOIN Users u ON p.username = u.username
PostsJoinUsers == {p \in PostsData : p.username \in DOMAIN Users}

\* the fields getPosts adds to a post from its like counts
PostMetrics(likeCounts) ==
    LET likes == FormatLikes(likeCounts)
    IN  [likes |-> likes,
         totalLikes |-> TotalLikes(likes),
         rightLikes |-> RightLikes(likes),
         leftLikes |-> LeftLikes(likes),
         moderateLikes |-> ModerateLikes(likes),
         polarizationScore |-> PolarizationScore(likes)]

\* getPosts, from the entry of the handler through the posts query
GetPosts(pageRaw, limitRaw, sortRaw) ==
    /\ reader = Idle
    /\ LET page == ParseIntOr(pageRaw, 1)
           limit == ParseIntOr(limitRaw, DefaultPostsLimit)
           sortBy == SortByOr(sortRaw)
           offset == (page - 1) * limit
           Key(p) == OrderKey("POST", sortBy, p.postID, p.datePosted)
       IN  IF BadWindow(limit, offset)
           THEN /\ sent' = Response("getPosts", 500,
                     [success |-> FALSE,
                      message |-> "Server error while fetching posts"],
                     "", "POST", NULL, "You have an error in your SQL syntax")
                /\ reader' = reader
           ELSE \E ordered \in Orderings(PostsJoinUsers,
                                          [p \in PostsJoinUsers |-> Key(p)]) :
                /\ reader' =
                     [op |-> "getPosts", pc |-> "likes", page |-> page,
                      limit |-> limit, sortBy |-> sortBy, idx |-> 1,
                      posts |-> [k \in DOMAIN Page(ordered, limit, offset) |->
                          PostRow(Page(ordered, limit, offset)[k]) @@
                          [commentCount |->
                             CommentCount(Page(ordered, limit, offset)[k].postID)]]]
                /\ sent' = NoResponse
    /\ UNCHANGED <<Users, PostsData, Comments, Likes, inflight, lastAdd,
                   lastInsertId, listed>>

\* one iteration of the loop of getPosts: the like counts of the next post
GetPostsLikes ==
    /\ reader.op = "getPosts"
    /\ reader.pc = "likes"
    /\ reader.idx <= Len(reader.posts)
    /\ LET post == reader.posts[reader.idx]
           likeCounts == LikeCounts("POST", post.postID)
       IN  reader' = [reader EXCEPT
                        !.posts[reader.idx] = PostMetrics(likeCounts) @@ post,
                        !.idx = @ + 1]
    /\ sent' = NoResponse
    /\ UNCHANGED <<Users, PostsData, Comments, Likes, inflight, lastAdd,
                   lastInsertId, listed>>

\* SELECT COUNT(*) as total FROM PostsData, and the response of getPosts
GetPostsCount ==
    /\ reader.op = "getPosts"
    /\ reader.pc = "likes"
    /\ reader.idx > Len(reader.posts)
    /\ LET totalPosts == Cardinality(PostsData)
       IN  /\ sent' = Response("getPosts", 200,
                     [success |-> TRUE, currentPage |-> reader.page,
                      totalPages |-> Ceil(totalPosts, reader.limit),
                      totalPosts |-> totalPosts,
                      postsPerPage |-> reader.limit,
                      sortBy |-> reader.sortBy,
                      posts |-> reader.posts],
                     "", "POST", NULL, "")
           /\ listed' = TrackListing(
                 <<"getPosts", NULL, NULL, reader.sortBy, reader.limit>>,
                 reader.page,
                 [k \in DOMAIN reader.posts |-> reader.posts[k].postID],
                 totalPosts)
    /\ reader' = Idle
    /\ UNCHANGED <<Users, PostsData, Comments, Likes, inflight, lastAdd,
                   lastInsertId>>

\* ------------------------------------------------------------------------
\* getPostById
\* ------------------------------------------------------------------------

\* the row the comment queries select for comment c joined with its author
CommentRow(c) ==
    [commentID |-> c.commentID, postID |-> c.postID,
     datePosted |-> c.datePosted, parentCommentID |-> c.parentCommentID,
     username |-> c.username, polLean |-> Users[c.username]]

\* FROM Comments c JOIN Users u ON c.username = u.username
CommentsJoinUsers == {c \in Comments : c.username \in DOMAIN Users}

\* getPostById, from the entry of the handler through the post query
GetPostById(postID) ==
    /\ reader = Idle
    /\ LET posts == {p \in PostsJoinUsers : p.postID = postID}
       IN  IF Cardinality(posts) = 0
           THEN /\ sent' = Response("getPostById", 404,
                     [success |-> FALSE, message |-> "Post not found"],
                     "", "POST", postID, "")
                /\ reader' = reader
           ELSE /\ reader' = [op |-> "getPostById", pc |-> "postLikes",
                              postID |-> postID,
                              post |-> PostRow(CHOOSE p \in posts : TRUE)]
                /\ sent' = NoResponse
    /\ UNCHANGED <<Users, PostsData, Comments, Likes, inflight, lastAdd,
                   lastInsertId, listed>>

\* the like counts of the post
GetPostByIdLikes ==
    /\ reader.op = "getPostById"
    /\ reader.pc = "postLikes"
    /\ LET likeCounts == LikeCounts("POST", reader.postID)
       IN  reader' = [reader EXCEPT
                        !.pc = "comments",
                        !.post = [likes |-> FormatLikes(likeCounts)] @@ @]
    /\ sent' = NoResponse
    /\ UNCHANGED <<Users, PostsData, Comments, Likes, inflight, lastAdd,
                   lastInsertId, listed>>

\* the comments of the post, WHERE c.postID = ? ORDER BY c.datePosted ASC
GetPostByIdComments ==
    /\ reader.op = "getPostById"
    /\ reader.pc = "comments"
    /\ LET rows == {c \in CommentsJoinUsers : c.postID = reader.postID}
           Key(c) == <<c.datePosted, 0>>
       IN  \E ordered \in Orderings(rows, [c \in rows |-> Key(c)]) :
              reader' = [reader EXCEPT
                           !.pc = "commentLikes"] @@
                        [idx |-> 1,
                         comments |-> [k \in DOMAIN ordered |->
                                          CommentRow(ordered[k])]]
    /\ sent' = NoResponse
    /\ UNCHANGED <<Users, PostsData, Comments, Likes, inflight, lastAdd,
                   lastInsertId, listed>>

\* one iteration of the loop over the comments: the like counts of the next
GetPostByIdCommentLikes ==
    /\ reader.op = "getPostById"
    /\ reader.pc = "commentLikes"
    /\ reader.idx <= Len(reader.comments)
    /\ LET comment == reader.comments[reader.idx]
           likeCounts == LikeCounts("COMMENT", comment.commentID)
       IN  reader' = [reader EXCEPT
                        !.comments[reader.idx] =
                            [likes |-> FormatLikes(likeCounts)] @@ comment,
                        !.idx = @ + 1]
    /\ sent' = NoResponse
    /\ UNCHANGED <<Users, PostsData, Comments, Likes, inflight, lastAdd,
                   lastInsertId, listed>>

\* GetPostByIdRespond of a handler that deletes the likes of the post it
\* returns
GetPostByIdRespondPurge ==
    /\ reader.op = "getPostById"
    /\ reader.pc = "commentLikes"
    /\ reader.idx > Len(reader.comments)
    /\ sent' = Response("getPostById", 200,
                 [success |-> TRUE,
                  post |-> [comments |-> reader.comments] @@ reader.post],
                 "", "POST", reader.postID, "")
    /\ reader' = Idle
    /\ Likes' = [r \in {x \in DOMAIN Likes : ~(/\ x.entityType = "POST"
                                               /\ x.entityID = reader.postID)}
                  |-> Likes[r]]
    /\ UNCHANGED <<Users, PostsData, Comments, inflight, lastAdd,
                   lastInsertId, listed>>

\* post.comments = comments and the response of getPostById
GetPostByIdRespond ==
    /\ reader.op = "getPostById"
    /\ reader.pc = "commentLikes"
    /\ reader.idx > Len(reader.comments)
    /\ sent' = Response("getPostById", 200,
                 [success |-> TRUE,
                  post |-> [comments |-> reader.comments] @@ reader.post],
                 "", "POST", reader.postID, "")
    /\ reader' = Idle
    /\ UNCHANGED <<Users, PostsData, Comments, Likes, inflight, lastAdd,
                   lastInsertId, listed>>

\* ------------------------------------------------------------------------
\* getComments
\* ------------------------------------------------------------------------

\* a = b of SQL, which is not true when either side is NULL
SqlEq(a, b) == a # NULL /\ b # NULL /\ a = b

\* WHERE c.postID = ? AND c.parentCommentID IS NULL, or
\* WHERE c.postID = ? AND c.parentCommentID = ?
CommentsWhere(rows, postID, parentCommentID) ==
    {c \in rows :
        /\ SqlEq(c.postID, postID)
        /\ IF parentCommentID = NULL
           THEN c.parentCommentID = NULL
           ELSE SqlEq(c.parentCommentID, parentCommentID)}

\* (SELECT COUNT(*) FROM Comments WHERE parentCommentID = c.commentID)
ReplyCount(commentID) ==
    Cardinality({c \in Comments : SqlEq(c.parentCommentID, commentID)})

\* getComments, from the entry of the handler through the post lookup
GetComments(postID, pageRaw, limitRaw, sortRaw, parentID) ==
    /\ reader = Idle
    /\ LET page == ParseIntOr(pageRaw, 1)
           limit == ParseIntOr(limitRaw, DefaultCommentsLimit)
           posts == SelectPost(postID)
       IN  IF Cardinality(posts) = 0
           THEN /\ sent' = Response("getComments", 404,
                     [success |-> FALSE, message |-> "Post not found"],
                     "", "POST", postID, "")
                /\ reader' = reader
           ELSE /\ reader' = [op |-> "getComments", pc |-> "comments",
                              postID |-> postID, page |-> page,
                              limit |-> limit, sortBy |-> SortByOr(sortRaw),
                              parentCommentID |-> parentID,
                              offset |-> (page - 1) * limit]
                /\ sent' = NoResponse
    /\ UNCHANGED <<Users, PostsData, Comments, Likes, inflight, lastAdd,
                   lastInsertId, listed>>

\* the comments query of getComments
GetCommentsQuery ==
    /\ reader.op = "getComments"
    /\ reader.pc = "comments"
    /\ LET rows == CommentsWhere(CommentsJoinUsers, reader.postID,
                                 reader.parentCommentID)
           Key(c) == OrderKey("COMMENT", reader.sortBy, c.commentID,
                              c.datePosted)
       IN  IF BadWindow(reader.limit, reader.offset)
           THEN /\ sent' = Response("getComments", 500,
                     [success |-> FALSE,
                      message |-> "Server error while fetching comments"],
                     "", "POST", reader.postID,
                     "You have an error in your SQL syntax")
                /\ reader' = Idle
           ELSE \E ordered \in Orderings(rows, [c \in rows |-> Key(c)]) :
                /\ reader' = [reader EXCEPT !.pc = "likes"] @@
                     [idx |-> 1,
                      comments |->
                        [k \in DOMAIN Page(ordered, reader.limit, reader.offset)
                           |-> CommentRow(Page(ordered, reader.limit,
                                               reader.offset)[k]) @@
                               [replyCount |-> ReplyCount(
                                   Page(ordered, reader.limit,
                                        reader.offset)[k].commentID)]]]
                /\ sent' = NoResponse
    /\ UNCHANGED <<Users, PostsData, Comments, Likes, inflight, lastAdd,
                   lastInsertId, listed>>

\* the fields getComments adds to a comment from its like counts
CommentMetrics(likeCounts) ==
    LET likes == FormatLikes(likeCounts)
    IN  [likes |-> likes, totalLikes |-> TotalLikes(likes)]

\* one iteration of the loop of getComments: the like counts of the next
GetCommentsLikes ==
    /\ reader.op = "getComments"
    /\ reader.pc = "likes"
    /\ reader.idx <= Len(reader.comments)
    /\ LET comment == reader.comments[reader.idx]
           likeCounts == LikeCounts("COMMENT", comment.commentID)
       IN  reader' = [reader EXCEPT
                        !.comments[reader.idx] =
                            CommentMetrics(likeCounts) @@ comment,
                        !.idx = @ + 1]
    /\ sent' = NoResponse
    /\ UNCHANGED <<Users, PostsData, Comments, Likes, inflight, lastAdd,
                   lastInsertId, listed>>

\* SELECT COUNT(*) as total FROM Comments WHERE .., and the response
GetCommentsCount ==
    /\ reader.op = "getComments"
    /\ reader.pc = "likes"
    /\ reader.idx > Len(reader.comments)
    /\ LET totalComments ==
               Cardinality(CommentsWhere(Comments, reader.postID,
                                         reader.parentCommentID))
       IN  /\ sent' = Response("getComments", 200,
                     [success |-> TRUE, currentPage |-> reader.page,
                      totalPages |-> Ceil(totalComments, reader.limit),
                      totalComments |-> totalComments,
                      commentsPerPage |-> reader.limit,
                      sortBy |-> reader.sortBy,
                      parentCommentID |-> reader.parentCommentID,
                      comments |-> reader.comments],
                     "", "POST", reader.postID, "")
           /\ listed' = TrackListing(
                 <<"getComments", reader.postID, reader.parentCommentID,
                   reader.sortBy, reader.limit>>,
                 reader.page,
                 [k \in DOMAIN reader.comments |->
                     reader.comments[k].commentID],
                 totalComments)
    /\ reader' = Idle
    /\ UNCHANGED <<Users, PostsData, Comments, Likes, inflight, lastAdd,
                   lastInsertId>>

\* ------------------------------------------------------------------------
\* Specification of the like mutation service under concurrency
\* ------------------------------------------------------------------------

\* the users the schema script inserts: janedoe leans L, mark123 leans R
SeedUsers == [u \in Usernames |-> IF u = "janedoe" THEN "L" ELSE "R"]

\* the rest of the database the schema script leaves: two posts inserted by
\* one statement, two top-level comments on the first, no like; no request
\* in flight
InitContent ==
    /\ PostsData = {[postID |-> 1, username |-> "janedoe", datePosted |-> 0],
                    [postID |-> 2, username |-> "mark123", datePosted |-> 0]}
    /\ Comments = {[commentID |-> 1, postID |-> 1, parentCommentID |-> NULL,
                    username |-> "mark123", datePosted |-> 0],
                   [commentID |-> 2, postID |-> 1, parentCommentID |-> NULL,
                    username |-> "janedoe", datePosted |-> 0]}
    /\ Likes = EmptyBag
    /\ inflight = EmptyBag
    /\ reader = Idle
    /\ sent = NoResponse
    /\ lastInsertId = <<>>

Init ==
    /\ Users = SeedUsers
    /\ InitContent
    /\ lastAdd = NoHistory
    /\ listed = ListingOff

\* the same, keeping the history of the last insert
InitHistory ==
    /\ Users = SeedUsers
    /\ InitContent
    /\ lastAdd = NoAdd
    /\ listed = ListingOff

Next ==
    \/ \E u \in Principals, t \in TypeInputs, e \in LikeIDInputs :
           AddLike(u, t, e)
    \/ \E r \in BagToSet(inflight) : AddLikeEntity(r)
    \/ \E r \in BagToSet(inflight) : InsertLikeCheck(r)
    \/ \E r \in BagToSet(inflight) : InsertLikeInsert(r)
    \/ \E r \in BagToSet(inflight) : AddLikeCounts(r)
    \/ \E u \in Usernames, t \in TypeInputs, e \in LikeIDInputs :
           RemoveLike(u, t, e)
    \/ \E r \in BagToSet(inflight) : RemoveLikeCounts(r)

Spec == Init /\ [][Next]_vars

SpecHistory == InitHistory /\ [][Next]_vars

\* ------------------------------------------------------------------------
\* Specification of the feed: requests served one after the other
\* ------------------------------------------------------------------------

\* no request is in flight
Quiet == inflight = EmptyBag /\ reader = Idle

\* the same database with janedoe registered under any leaning
InitFeed ==
    /\ \E l \in Leanings : Users = [SeedUsers EXCEPT !["janedoe"] = l]
    /\ InitContent
    /\ lastAdd = NoHistory
    /\ listed = ListingOff

NextFeed ==
    \/ /\ Quiet
       /\ \E u \in Principals, t \in TypeInputs, e \in LikeIDInputs :
             AddLike(u, t, e)
    \/ \E r \in BagToSet(inflight) : AddLikeEntity(r)
    \/ \E r \in BagToSet(inflight) : InsertLikeCheck(r)
    \/ \E r \in BagToSet(inflight) : InsertLikeInsert(r)
    \/ \E r \in BagToSet(inflight) : AddLikeCounts(r)
    \/ /\ Quiet
       /\ \E u \in Usernames, t \in TypeInputs, e \in LikeIDInputs :
             RemoveLike(u, t, e)
    \/ \E r \in BagToSet(inflight) : RemoveLikeCounts(r)
    \/ /\ Quiet
       /\ \E pg \in PageInputs, lim \in LimitInputs, srt \in PostSortInputs :
             GetPosts(pg, lim, srt)
    \/ GetPostsLikes
    \/ GetPostsCount
    \/ Quiet /\ \E id \in LikeIDInputs : GetPostById(id)
    \/ GetPostByIdLikes
    \/ GetPostByIdComments
    \/ GetPostByIdCommentLikes
    \/ GetPostByIdRespond
    \/ /\ Quiet
       /\ \E id \in LikeIDInputs, pg \in PageInputs, lim \in LimitInputs,
             srt \in CommentSortInputs, par \in ParentInputs :
             GetComments(id, pg, lim, srt, par)
    \/ GetCommentsQuery
    \/ GetCommentsLikes
    \/ GetCommentsCount

SpecFeed == InitFeed /\ [][NextFeed]_vars

\* ------------------------------------------------------------------------
\* Properties of the like mutation service
\* ------------------------------------------------------------------------

\* number of rows of Likes on the triple (username, entityType, entityID)
RowsOn(username, entityType, entityID) ==
    CountRows(LikeRowsOf(username, entityType, entityID))

\* request r of the bag takes the step
Steps(r) == CopiesIn(r, inflight') < CopiesIn(r, inflight)

\* the response just sent answers a request on the triple of record r
Answers(r) ==
    /\ sent.username = r.username
    /\ sent.entityType = r.entityType
    /\ sent.entityID = r.entityID

\* the identifiers of the stored posts and comments and of the requests
KnownIDs ==
    LikeIDInputs \cup {p.postID : p \in PostsData}
                 \cup {c.commentID : c \in Comments}

\* C1: in every reachable state, whatever the interleaving of addLike and
\* removeLike requests, Likes holds at most one row per
\* (username, entityType, entityID)
C1_UniqueLike ==
    \A r \in DOMAIN Likes :
        RowsOn(r.username, r.entityType, r.entityID) <= 1

\* two identical addLike requests raced: the second INSERT was rejected by
\* the unique key and the table holds one row of the triple
C1_Witness ==
    /\ sent.op = "addLike"
    /\ sent.cause = DupEntry
    /\ RowsOn(sent.username, sent.entityType, sent.entityID) = 1

\* C2: per triple the table changes only Unliked -> Liked by the INSERT of an
\* addLike that goes on to its 201 and Liked -> Unliked by the DELETE of a
\* removeLike that goes on to its 200; an addLike whose existence check finds
\* the triple Liked answers 409, a removeLike on an Unliked triple answers
\* 404, and every step that answers a failure leaves Likes as it was
C2_LikeStateMachine ==
    [][ /\ \A u \in Usernames, t \in EntityTypes, e \in KnownIDs :
              RowsOn(u, t, e)' # RowsOn(u, t, e) =>
                 \/ /\ RowsOn(u, t, e) = 0
                    /\ RowsOn(u, t, e)' = 1
                    /\ \E r \in BagToSet(inflight) :
                          /\ r.op = "addLike" /\ r.pc = "insert"
                          /\ r.username = u /\ r.entityType = t
                          /\ r.entityID = e
                          /\ inflight' = Advance(r, [r EXCEPT !.pc = "counts"])
                 \/ /\ RowsOn(u, t, e) = 1
                    /\ RowsOn(u, t, e)' = 0
                    /\ inflight' = Accept([op |-> "removeLike",
                                           pc |-> "counts", username |-> u,
                                           entityType |-> t, entityID |-> e])
        /\ \A r \in BagToSet(inflight) :
              /\ (/\ r.op = "addLike" /\ r.pc = "call" /\ Steps(r)
                  /\ RowsOn(r.username, r.entityType, r.entityID) > 0)
                 => /\ sent'.op = "addLike"
                    /\ sent'.status = 409
                    /\ Answers(r)'
                    /\ inflight' = Finish(r)
                    /\ Likes' = Likes
              /\ (r.pc = "counts" /\ Steps(r))
                 => /\ sent'.op = r.op
                    /\ sent'.status \in {200, 201}
                    /\ inflight' = Finish(r)
        /\ \A r \in BagToSet(inflight') :
              (r.op = "removeLike" /\ CopiesIn(r, inflight') > CopiesIn(r, inflight))
                 => RowsOn(r.username, r.entityType, r.entityID) = 1
        /\ (sent'.op = "removeLike" /\ sent'.status = 404)
              => /\ RowsOn(sent'.username, sent'.entityType, sent'.entityID) = 0
                 /\ Likes' = Likes
        /\ (sent'.op \in {"addLike", "removeLike"} /\ sent'.status >= 400)
              => Likes' = Likes
      ]_vars

\* an addLike on a Liked triple has just been answered 409 and the row is
\* still the only one
C2_Witness ==
    /\ sent.op = "addLike"
    /\ sent.status = 409
    /\ RowsOn(sent.username, sent.entityType, sent.entityID) = 1

\* C3: an addLike whose INSERT is rejected by the unique key, because an
\* identical request inserted after both passed the existence check, is
\* answered 409 Conflict and never a generic server error
C3_ConflictOnUniqueViolation ==
    (sent.op = "addLike" /\ sent.cause = DupEntry) => sent.status = 409

\* C5: with no other change of Likes in between, the distribution answered
\* by the removeLike that follows a successful addLike of the same triple
\* equals, key for key over the seven leanings, the distribution of the
\* entity before that addLike
C5_RemoveRestores ==
    (/\ sent.op = "removeLike"
     /\ sent.status = 200
     /\ lastAdd.stage = "removed"
     /\ Answers(lastAdd))
       => /\ DOMAIN sent.body.likes = Leanings
          /\ \A l \in Leanings : sent.body.likes[l] = lastAdd.pre[l]

\* such a removeLike has been answered for an entity another user had liked
\* before the addLike
C5_Witness ==
    /\ sent.op = "removeLike"
    /\ sent.status = 200
    /\ lastAdd.stage = "removed"
    /\ Answers(lastAdd)
    /\ \E l \in Leanings : lastAdd.pre[l] > 0

\* the successful addLike of the recorded insert has just been answered and
\* Likes has not changed since the insert
AddAnswered ==
    /\ sent.op = "addLike"
    /\ sent.status = 201
    /\ lastAdd.stage = "added"
    /\ Answers(lastAdd)

\* C8 as amended: a successful addLike by a user of leaning x, with no other
\* change of Likes since its insert, answers the distribution the entity had
\* before the insert with the count of x increased by one and every other
\* key unchanged, and the response carries that distribution only; on an
\* entity with no prior like and x = L it is {L:1, others:0}, from which
\* totalLikes = 1, leftLikes = 1, rightLikes = 0, polarizationScore = 1
C8_AddIncrementsOwnLeaning ==
    AddAnswered =>
       LET x == Users[sent.username]
           likes == sent.body.likes
       IN  /\ DOMAIN likes = Leanings
           /\ \A l \in Leanings :
                 likes[l] = lastAdd.pre[l] + (IF l = x THEN 1 ELSE 0)
           /\ DOMAIN sent.body = {"success", "message", "likes"}
           /\ ((x = "L" /\ \A l \in Leanings : lastAdd.pre[l] = 0) =>
                 /\ likes = [l \in Leanings |-> IF l = "L" THEN 1 ELSE 0]
                 /\ TotalLikes(likes) = 1
                 /\ LeftLikes(likes) = 1
                 /\ RightLikes(likes) = 0
                 /\ PolarizationScore(likes) = 1)

\* the scenario of C8: the first like of an entity, by a user of leaning L
C8_Witness ==
    /\ AddAnswered
    /\ Users[sent.username] = "L"
    /\ \A l \in Leanings : lastAdd.pre[l] = 0

\* C8 as stated: the response of a successful addLike carries the derived
\* scalars together with the distribution
C8_AddReturnsScalars ==
    AddAnswered =>
       /\ {"likes", "totalLikes", "leftLikes", "rightLikes",
           "polarizationScore"} \subseteq DOMAIN sent.body
       /\ sent.body.totalLikes = TotalLikes(sent.body.likes)
       /\ sent.body.leftLikes = LeftLikes(sent.body.likes)
       /\ sent.body.rightLikes = RightLikes(sent.body.likes)
       /\ sent.body.polarizationScore = PolarizationScore(sent.body.likes)

\* the post or comment (entityType, entityID) exists
EntityExists(entityType, entityID) ==
    \/ entityType = "POST" /\ \E p \in PostsData : p.postID = entityID
    \/ entityType = "COMMENT" /\ \E c \in Comments : c.commentID = entityID

\* C10: addLike checks user, then entity type, then entity: a request
\* failing several checks is answered for the first of them in that order,
\* and in each of the three cases the step inserts no Like row and the table
\* holds none for the request
C10_CheckOrder ==
    [][ sent'.op = "addLike" =>
          LET s == sent'
              userOK == s.username \in DOMAIN Users
              typeOK == s.entityType \in EntityTypes
              entityOK == EntityExists(s.entityType, s.entityID)
              noRow == /\ Likes' = Likes
                       /\ RowsOn(s.username, s.entityType, s.entityID) = 0
          IN  /\ ~userOK =>
                    /\ s.status = 404
                    /\ s.body.message = "User not found"
                    /\ noRow
              /\ (userOK /\ ~typeOK) =>
                    /\ s.status = 400
                    /\ s.body.message =
                          "Entity type must be either POST or COMMENT"
                    /\ noRow
              /\ (userOK /\ typeOK /\ ~entityOK) =>
                    /\ s.status = 404
                    /\ s.body.message \in {"post not found",
                                            "comment not found"}
                    /\ noRow
      ]_vars

\* a request that fails all three checks has been answered User not found
C10_Witness ==
    /\ sent.op = "addLike"
    /\ sent.username \notin DOMAIN Users
    /\ sent.entityType \notin EntityTypes
    /\ ~EntityExists(sent.entityType, sent.entityID)
    /\ sent.status = 404

\* ------------------------------------------------------------------------
\* Listings over unchanged data
\* ------------------------------------------------------------------------

\* a database after some creations and likes: the two posts of the schema
\* script and a later one, three top-level comments on the first post, the
\* third one later, and a reply to the first comment; any set of likes of
\* the two users on posts 1 and 2 and on comments 1 and 2
InitList ==
    /\ \E l \in ListLeanings : Users = [SeedUsers EXCEPT !["janedoe"] = l]
    /\ PostsData = {[postID |-> 1, username |-> "janedoe", datePosted |-> 0],
                    [postID |-> 2, username |-> "mark123", datePosted |-> 0],
                    [postID |-> 3, username |-> "mark123", datePosted |-> 1]}
    /\ Comments = {[commentID |-> 1, postID |-> 1, parentCommentID |-> NULL,
                    username |-> "mark123", datePosted |-> 0],
                   [commentID |-> 2, postID |-> 1, parentCommentID |-> NULL,
                    username |-> "janedoe", datePosted |-> 0],
                   [commentID |-> 3, postID |-> 1, parentCommentID |-> NULL,
                    username |-> "janedoe", datePosted |-> 1],
                   [commentID |-> 4, postID |-> 1, parentCommentID |-> 1,
                    username |-> "janedoe", datePosted |-> 1]}
    /\ \E liked \in SUBSET (Usernames \X {1, 2}) :
          Likes = SetToBag({[username |-> x[1], entityType |-> t,
                             entityID |-> x[2], polLean |-> Users[x[1]]] :
                              x \in liked, t \in EntityTypes})
    /\ inflight = EmptyBag
    /\ reader = Idle
    /\ sent = NoResponse
    /\ lastInsertId = <<>>
    /\ lastAdd = NoHistory
    /\ listed = ListingOff

\* getPosts and getComments, one request after another
NextList ==
    \/ \E pg \in PageInputs, lim \in ListLimitInputs,
          srt \in PostSortInputs : GetPosts(pg, lim, srt)
    \/ GetPostsLikes
    \/ GetPostsCount
    \/ \E id \in LikeIDInputs, pg \in PageInputs, lim \in ListLimitInputs,
          srt \in CommentSortInputs, par \in ParentInputs :
          GetComments(id, pg, lim, srt, par)
    \/ GetCommentsQuery
    \/ GetCommentsLikes
    \/ GetCommentsCount

SpecList == InitList /\ [][NextList]_vars

\* the database of the schema script, with a client collecting the pages of
\* a listing
InitPaging ==
    /\ Users = SeedUsers
    /\ InitContent
    /\ lastAdd = NoHistory
    /\ listed = NoListing

SpecPaging == InitPaging /\ [][NextList]_vars

\* ------------------------------------------------------------------------
\* Creation of posts and comments under concurrency
\* ------------------------------------------------------------------------

\* createPost and addComment interleaved at their awaits
NextCreate ==
    \/ \E u \in Principals, t \in TextInputs, b \in TextInputs :
          CreatePost(u, t, b)
    \/ \E r \in BagToSet(inflight) : InsertPost(r)
    \/ \E r \in BagToSet(inflight) : CreatePostLastId(r)
    \/ \E u \in Usernames : AddComment(u, 1, NULL, "text")
    \/ \E r \in BagToSet(inflight) : InsertComment(r)
    \/ \E r \in BagToSet(inflight) : AddCommentLastId(r)

SpecCreate == Init /\ [][NextCreate]_vars

\* addComment with every shape of request and getComments of the first
\* post, one request after another
NextThread ==
    \/ /\ Quiet
       /\ \E u \in Principals, p \in CommentRefInputs,
             c \in CommentRefInputs, b \in TextInputs :
             AddComment(u, p, c, b)
    \/ \E r \in BagToSet(inflight) : InsertComment(r)
    \/ \E r \in BagToSet(inflight) : AddCommentLastId(r)
    \/ /\ Quiet
       /\ \E id \in LikeIDInputs, par \in ParentInputs :
             GetComments(id, "1", "", "", par)
    \/ GetCommentsQuery
    \/ GetCommentsLikes
    \/ GetCommentsCount

SpecThread == Init /\ [][NextThread]_vars

\* ------------------------------------------------------------------------
\* The feed with profile changes
\* ------------------------------------------------------------------------

\* the users whose leaning changes and the leanings they change to
ProfileUsers == {"janedoe"}
ProfileLeanings == {"L", "SR"}

\* Users.polLean is an ordinary column: a statement outside the handlers
\* sets the declared leaning of a user, between two requests
UpdatePolLean(username, polLean) ==
    /\ Quiet
    /\ username \in DOMAIN Users
    /\ Users[username] # polLean
    /\ Users' = [Users EXCEPT ![username] = polLean]
    /\ sent' = NoResponse
    /\ UNCHANGED <<PostsData, Comments, Likes, inflight, reader, lastAdd,
                   lastInsertId, listed>>

NextProfile ==
    \/ NextFeed
    \/ \E u \in ProfileUsers, l \in ProfileLeanings : UpdatePolLean(u, l)

SpecProfile == Init /\ [][NextProfile]_vars

\* ------------------------------------------------------------------------
\* Properties of the aggregates returned by the feed
\* ------------------------------------------------------------------------

\* the users who hold a like on (entityType, entityID)
LikedBy(entityType, entityID) ==
    {u \in DOMAIN Users \cup {r.username : r \in DOMAIN Likes} :
        RowsOn(u, entityType, entityID) > 0}

IsDistribution(likes, entityType, entityID) ==
    /\ DOMAIN likes = Leanings
    /\ \A l \in Leanings :
          /\ likes[l] \in Nat
          /\ CountLikes(entityType, entityID, {l}) = 0 => likes[l] = 0

\* C6: every distribution returned by getPosts, getPostById, getComments,
\* addLike and removeLike has exactly the keys FL, L, SL, M, SR, R, FR, each
\* with a non-negative integer, a leaning without like being 0
C6_SevenKeys ==
    /\ (sent.op \in {"addLike", "removeLike"} /\ sent.status \in {200, 201})
          => IsDistribution(sent.body.likes, sent.entityType, sent.entityID)
    /\ (sent.op = "getPosts" /\ sent.status = 200) =>
          \A k \in DOMAIN sent.body.posts :
             IsDistribution(sent.body.posts[k].likes, "POST",
                            sent.body.posts[k].postID)
    /\ (sent.op = "getPostById" /\ sent.status = 200) =>
          /\ IsDistribution(sent.body.post.likes, "POST",
                            sent.body.post.postID)
          /\ \A k \in DOMAIN sent.body.post.comments :
                IsDistribution(sent.body.post.comments[k].likes, "COMMENT",
                               sent.body.post.comments[k].commentID)
    /\ (sent.op = "getComments" /\ sent.status = 200) =>
          \A k \in DOMAIN sent.body.comments :
             IsDistribution(sent.body.comments[k].likes, "COMMENT",
                            sent.body.comments[k].commentID)

\* getPostById returns a post with a like together with a comment of it
\* that has none
C6_Witness ==
    /\ sent.op = "getPostById"
    /\ sent.status = 200
    /\ \E l \in Leanings : sent.body.post.likes[l] > 0
    /\ \E k \in DOMAIN sent.body.post.comments :
          \A l \in Leanings : sent.body.post.comments[k].likes[l] = 0

\* C7: for every post returned by getPosts, rightLikes = FR+R+SR,
\* leftLikes = FL+L+SL, moderateLikes = M, totalLikes is the sum of the seven
\* counts, right + left + moderate = total and polarizationScore is
\* |right - left|, over the counts of the likes stored for the post; a post
\* without like reports 0 for all of them
C7_DerivedMetrics ==
    (sent.op = "getPosts" /\ sent.status = 200) =>
       \A k \in DOMAIN sent.body.posts :
          LET post == sent.body.posts[k]
              n == post.likes
          IN  /\ \A l \in Leanings :
                    n[l] = CountLikes("POST", post.postID, {l})
              /\ post.rightLikes = n["FR"] + n["R"] + n["SR"]
              /\ post.leftLikes = n["FL"] + n["L"] + n["SL"]
              /\ post.moderateLikes = n["M"]
              /\ post.totalLikes = n["FL"] + n["L"] + n["SL"] + n["M"]
                                    + n["SR"] + n["R"] + n["FR"]
              /\ post.rightLikes + post.leftLikes + post.moderateLikes
                    = post.totalLikes
              /\ post.polarizationScore =
                    (IF post.rightLikes >= post.leftLikes
                     THEN post.rightLikes - post.leftLikes
                     ELSE post.leftLikes - post.rightLikes)
              /\ LikedBy("POST", post.postID) = {} =>
                    /\ \A l \in Leanings : n[l] = 0
                    /\ post.totalLikes = 0 /\ post.rightLikes = 0
                    /\ post.leftLikes = 0 /\ post.moderateLikes = 0
                    /\ post.polarizationScore = 0

\* a page of getPosts holds a post with one like of the right side and one
\* of another side, and a post without like
C7_Witness ==
    /\ sent.op = "getPosts"
    /\ sent.status = 200
    /\ \E k \in DOMAIN sent.body.posts :
          /\ sent.body.posts[k].totalLikes = 2
          /\ sent.body.posts[k].rightLikes = 1
    /\ \E k \in DOMAIN sent.body.posts : sent.body.posts[k].totalLikes = 0

\* the Like rows on the triple of row
SameTriple(row, likes) ==
    {old \in BagToSet(likes) : /\ old.username = row.username
                                /\ old.entityType = row.entityType
                                /\ old.entityID = row.entityID}

\* likes counts the stored rows of (entityType, entityID) by the leaning
\* stored on them
CountsStored(likes, entityType, entityID) ==
    \A l \in Leanings : likes[l] = CountLikes(entityType, entityID, {l})

\* every aggregate the response carries counts the rows by the leaning
\* stored on them
AggregatesStored ==
    /\ (sent.op \in {"addLike", "removeLike"}
           /\ sent.status \in {200, 201}) =>
          CountsStored(sent.body.likes, sent.entityType, sent.entityID)
    /\ (sent.op = "getPosts" /\ sent.status = 200) =>
          \A k \in DOMAIN sent.body.posts :
             CountsStored(sent.body.posts[k].likes, "POST",
                          sent.body.posts[k].postID)
    /\ (sent.op = "getPostById" /\ sent.status = 200) =>
          /\ CountsStored(sent.body.post.likes, "POST",
                          sent.body.post.postID)
          /\ \A k \in DOMAIN sent.body.post.comments :
                CountsStored(sent.body.post.comments[k].likes, "COMMENT",
                             sent.body.post.comments[k].commentID)
    /\ (sent.op = "getComments" /\ sent.status = 200) =>
          \A k \in DOMAIN sent.body.comments :
             CountsStored(sent.body.comments[k].likes, "COMMENT",
                          sent.body.comments[k].commentID)

\* a step that inserts a Like row stores the leaning the user has at that
\* step and no step changes the leaning stored on a row
SnapshotStep ==
    \A row \in BagToSet(Likes') :
       IF SameTriple(row, Likes) = {}
       THEN row.username \in DOMAIN Users
            /\ row.polLean = Users[row.username]
       ELSE row \in BagToSet(Likes)

C11_ReturnsOwnId ==
    /\ (sent.op = "createPost" /\ sent.status = 201) =>
          sent.body.postID # 0 /\ sent.body.postID = sent.entityID
    /\ (sent.op = "addComment" /\ sent.status = 201) =>
          sent.body.commentID # 0 /\ sent.body.commentID = sent.entityID

\* the comments a listing of (postID, parentCommentID) is to return: the
\* comments of postID without parent, or the direct replies to the comment
DirectChildren(postID, parentCommentID) ==
    IF parentCommentID = NULL
    THEN {c.commentID : c \in {x \in Comments : /\ x.postID = postID
                                                   /\ x.parentCommentID = NULL}}
    ELSE {c.commentID :
            c \in {x \in Comments : x.parentCommentID = parentCommentID}}

PostStored(postID) == \E p \in PostsData : p.postID = postID

\* C18: getComments of a postID that is not in PostsData answers 404 Post
\* not found, and only a request whose post exists gets past the check to
\* the comments, like-count and total-count queries
C18_PostCheckedFirst ==
    /\ reader.op = "getComments" => PostStored(reader.postID)
    /\ (sent.op = "getComments" /\ ~PostStored(sent.entityID)) =>
          /\ sent.status = 404
          /\ sent.body.message = "Post not found"
          /\ reader = Idle

\* getComments of post 3, which does not exist, has answered 404
C18_Witness ==
    /\ sent.op = "getComments"
    /\ sent.entityID = 3
    /\ ~PostStored(3)
    /\ sent.status = 404
    /\ reader = Idle

\* ------------------------------------------------------------------------
\* Properties of the listings
\* ------------------------------------------------------------------------

\* the last response is a page of getPosts or of getComments
IsListing == sent.op \in {"getPosts", "getComments"} /\ sent.status = 200

\* the entities, page size and total a listing response reports
Listed == IF sent.op = "getPosts" THEN sent.body.posts ELSE sent.body.comments

ListedIds ==
    [k \in DOMAIN Listed |->
        IF sent.op = "getPosts" THEN Listed[k].postID
        ELSE Listed[k].commentID]

PerPage ==
    IF sent.op = "getPosts" THEN sent.body.postsPerPage
    ELSE sent.body.commentsPerPage

Total ==
    IF sent.op = "getPosts" THEN sent.body.totalPosts
    ELSE sent.body.totalComments

\* the stored rows a listing response ranges over: every post, or the
\* comments of the post under the requested parent
Scope ==
    IF sent.op = "getPosts" THEN PostsData
    ELSE {c \in Comments :
            /\ c.postID = sent.entityID
            /\ c.parentCommentID = sent.body.parentCommentID}

ScopeId(row) == IF sent.op = "getPosts" THEN row.postID ELSE row.commentID

\* ListedIds is the window of the page over the sequence of rows o
IsWindow(o) ==
    LET first == (sent.body.currentPage - 1) * PerPage
        n == IF Len(o) - first >= PerPage THEN PerPage
             ELSE IF Len(o) - first > 0 THEN Len(o) - first ELSE 0
    IN  /\ Len(ListedIds) = n
        /\ \A k \in 1..n : ListedIds[k] = ScopeId(o[first + k])

\* the totals of the response are those of the whole scope
TotalsOfScope ==
    /\ Total = Cardinality(Scope)
    /\ sent.body.totalPages * PerPage >= Total
    /\ (sent.body.totalPages - 1) * PerPage < Total

KnownSorts ==
    IF sent.op = "getPosts"
    THEN {"recent", "balanced", "controversial", "right", "left", "moderate"}
    ELSE {"recent", "controversial", "balanced", "oldest"}

ReportedKey(e) ==
    LET sortBy == sent.body.sortBy
        balance == (e.likes["FR"] + e.likes["R"] + e.likes["SR"])
                   - (e.likes["FL"] + e.likes["L"] + e.likes["SL"])
    IN  IF sent.op = "getPosts"
        THEN CASE sortBy = "balanced" ->
                    <<e.polarizationScore, 0 - e.datePosted>>
               [] sortBy = "controversial" ->
                    <<0 - e.totalLikes, 0 - e.datePosted>>
               [] sortBy = "right" -> <<0 - e.rightLikes, 0 - e.datePosted>>
               [] sortBy = "left" -> <<0 - e.leftLikes, 0 - e.datePosted>>
               [] sortBy = "moderate" ->
                    <<0 - e.moderateLikes, 0 - e.datePosted>>
               [] OTHER -> <<0 - e.datePosted, 0>>
        ELSE CASE sortBy = "balanced" ->
                    <<IF balance < 0 THEN 0 - balance ELSE balance,
                      0 - e.datePosted>>
               [] sortBy = "controversial" ->
                    <<0 - e.totalLikes, 0 - e.datePosted>>
               [] sortBy = "oldest" -> <<e.datePosted, 0>>
               [] OTHER -> <<0 - e.datePosted, 0>>

\* C16: with no mutation under way, the entities of a listing are ordered
\* by the policy's primary key, then by datePosted descending (balanced:
\* polarizationScore ascending; controversial: totalLikes descending;
\* right, left, moderate: rightLikes, leftLikes, moderateLikes descending;
\* recent: datePosted descending; oldest: datePosted ascending), and the
\* key the query ordered by is the metric the response reports
C16_OrderedByReportedKey ==
    IsListing =>
       /\ \A k \in 1..(Len(Listed) - 1) :
             LET a == ReportedKey(Listed[k])
                 b == ReportedKey(Listed[k + 1])
             IN  a[1] < b[1] \/ (a[1] = b[1] /\ a[2] <= b[2])
       /\ \A k \in DOMAIN Listed :
             OrderKey(IF sent.op = "getPosts" THEN "POST" ELSE "COMMENT",
                      sent.body.sortBy, ListedIds[k],
                      Listed[k].datePosted)[1]
               = ReportedKey(Listed[k])[1]

\* a balanced listing of posts with a post liked once from the right and
\* once from the left ahead of a post liked from one side only
C16_Witness ==
    /\ sent.op = "getPosts"
    /\ sent.status = 200
    /\ sent.body.sortBy = "balanced"
    /\ \E k \in 1..(Len(sent.body.posts) - 1) :
          /\ sent.body.posts[k].rightLikes = 1
          /\ sent.body.posts[k].leftLikes = 1
          /\ sent.body.posts[k].polarizationScore = 0
          /\ sent.body.posts[k + 1].polarizationScore = 1

\* the listing the last response belongs to, as TrackListing names it
ListingOfSent ==
    <<sent.op,
      IF sent.op = "getPosts" THEN NULL ELSE sent.entityID,
      IF sent.op = "getPosts" THEN NULL ELSE sent.body.parentCommentID,
      sent.body.sortBy, PerPage>>

\* C13: on unchanged data, the pages 1..ceil(total/limit) of a listing,
\* requested in sequence and concatenated, hold every entity of the scope
\* exactly once: total entries, all distinct, also when entities tie on
\* the sort key and on datePosted
C13_PagesCoverScope ==
    (/\ listed.stage = "pages"
     /\ listed.listing[5] >= 1
     /\ Len(listed.pages) * listed.listing[5] >= listed.total
     /\ (Len(listed.pages) - 1) * listed.listing[5] < listed.total) =>
       LET entries == {pk \in (DOMAIN listed.pages) \X (1..listed.total) :
                          pk[2] \in DOMAIN listed.pages[pk[1]]}
       IN  /\ Cardinality(entries) = listed.total
           /\ Cardinality({listed.pages[pk[1]][pk[2]] : pk \in entries})
                 = listed.total

\* C14: a listing executed again with the same scope, policy, page and
\* limit over the same table contents returns the same entities in the
\* same order as the first time, also when entities tie on the primary
\* key and on datePosted
C14_SameAnswerAgain ==
    (/\ IsListing
     /\ listed.stage = "pages"
     /\ ListingOfSent = listed.listing
     /\ sent.body.currentPage \in DOMAIN listed.pages) =>
       ListedIds = listed.pages[sent.body.currentPage]

\* ------------------------------------------------------------------------
\* Storage failures: a statement sent after the mutation is rejected
\* ------------------------------------------------------------------------

\* the message of the error db.query rejects with when the connection to
\* the storage is lost
ConnectionLost == "Connection lost: The server closed the connection."

\* the refreshed count query of addLike is rejected: the inner catch does
\* not find 'Like Already Exists' in the message and rethrows, the outer
\* catch answers 500
AddLikeCountsFail(r) ==
    /\ BagIn(r, inflight)
    /\ r.op = "addLike"
    /\ r.pc = "counts"
    /\ sent' = Issued(4, Response("addLike", AddLikeCatch(ConnectionLost),
                 AddLikeCatchBody(ConnectionLost),
                 r.username, r.entityType, r.entityID, ConnectionLost))
    /\ inflight' = Finish(r)
    /\ UNCHANGED <<Users, PostsData, Comments, Likes, reader, lastAdd,
                   lastInsertId, listed>>

\* the refreshed count query of removeLike is rejected: the catch answers
\* 500
RemoveLikeCountsFail(r) ==
    /\ BagIn(r, inflight)
    /\ r.op = "removeLike"
    /\ r.pc = "counts"
    /\ sent' = Issued(2, Response("removeLike", 500,
                 [success |-> FALSE,
                  message |-> "Server error while removing like"],
                 r.username, r.entityType, r.entityID, ConnectionLost))
    /\ inflight' = Finish(r)
    /\ UNCHANGED <<Users, PostsData, Comments, Likes, reader, lastAdd,
                   lastInsertId, listed>>

\* SELECT LAST_INSERT_ID() of createPost is rejected: the catch answers 500
CreatePostLastIdFail(r) ==
    /\ BagIn(r, inflight)
    /\ r.op = "createPost"
    /\ r.pc = "lastid"
    /\ sent' = Issued(2, Response("createPost", 500,
                 [success |-> FALSE,
                  message |-> "Server error while creating post"],
                 r.username, "POST", r.inserted, ConnectionLost))
    /\ inflight' = Finish(r)
    /\ UNCHANGED <<Users, PostsData, Comments, Likes, reader, lastAdd,
                   lastInsertId, listed>>

\* SELECT LAST_INSERT_ID() of addComment is rejected: the catch answers 500
AddCommentLastIdFail(r) ==
    /\ BagIn(r, inflight)
    /\ r.op = "addComment"
    /\ r.pc = "lastid"
    /\ sent' = Issued(2, Response("addComment", 500,
                 [success |-> FALSE,
                  message |-> "Server error while adding comment"],
                 r.username, "COMMENT", r.inserted, ConnectionLost))
    /\ inflight' = Finish(r)
    /\ UNCHANGED <<Users, PostsData, Comments, Likes, reader, lastAdd,
                   lastInsertId, listed>>

\* the mutation requests served one after the other, the statement that
\* follows the insert or the delete succeeding or failing
NextFault ==
    \/ /\ Quiet
       /\ \E u \in Usernames, e \in LikeIDInputs : AddLike(u, "POST", e)
    \/ \E r \in BagToSet(inflight) : AddLikeEntity(r)
    \/ \E r \in BagToSet(inflight) : InsertLikeCheck(r)
    \/ \E r \in BagToSet(inflight) : InsertLikeInsert(r)
    \/ \E r \in BagToSet(inflight) : AddLikeCounts(r)
    \/ \E r \in BagToSet(inflight) : AddLikeCountsFail(r)
    \/ /\ Quiet
       /\ \E u \in Usernames, e \in LikeIDInputs : RemoveLike(u, "POST", e)
    \/ \E r \in BagToSet(inflight) : RemoveLikeCounts(r)
    \/ \E r \in BagToSet(inflight) : RemoveLikeCountsFail(r)
    \/ /\ Quiet
       /\ \E title \in TextInputs : CreatePost("janedoe", title, "text")
    \/ \E r \in BagToSet(inflight) : InsertPost(r)
    \/ \E r \in BagToSet(inflight) : CreatePostLastId(r)
    \/ \E r \in BagToSet(inflight) : CreatePostLastIdFail(r)
    \/ /\ Quiet
       /\ \E body \in TextInputs : AddComment("janedoe", 1, NULL, body)
    \/ \E r \in BagToSet(inflight) : InsertComment(r)
    \/ \E r \in BagToSet(inflight) : AddCommentLastId(r)
    \/ \E r \in BagToSet(inflight) : AddCommentLastIdFail(r)

SpecFault == Init /\ [][NextFault]_vars

\* ------------------------------------------------------------------------
\* Listings while likes are added and removed
\* ------------------------------------------------------------------------

\* the sortBy values of the listings that order by like counts
LikeSortInputs == {"controversial", "balanced"}

\* two posts and two comments on the first post, the second of each later
\* than the first, no like
InitRace ==
    /\ Users = SeedUsers
    /\ PostsData = {[postID |-> 1, username |-> "janedoe", datePosted |-> 0],
                    [postID |-> 2, username |-> "mark123", datePosted |-> 1]}
    /\ Comments = {[commentID |-> 1, postID |-> 1, parentCommentID |-> NULL,
                    username |-> "mark123", datePosted |-> 0],
                   [commentID |-> 2, postID |-> 1, parentCommentID |-> NULL,
                    username |-> "janedoe", datePosted |-> 1]}
    /\ Likes = EmptyBag
    /\ inflight = EmptyBag
    /\ reader = Idle
    /\ sent = NoResponse
    /\ lastInsertId = <<>>
    /\ lastAdd = NoHistory
    /\ listed = ListingOff

\* a listing served while addLike and removeLike requests of janedoe on
\* post 1 and on comment 1 are served: the statements of the handlers
\* interleave
NextRace ==
    \/ \E t \in EntityTypes : AddLike("janedoe", t, 1)
    \/ \E r \in BagToSet(inflight) : AddLikeEntity(r)
    \/ \E r \in BagToSet(inflight) : InsertLikeCheck(r)
    \/ \E r \in BagToSet(inflight) : InsertLikeInsert(r)
    \/ \E r \in BagToSet(inflight) : AddLikeCounts(r)
    \/ \E t \in EntityTypes : RemoveLike("janedoe", t, 1)
    \/ \E r \in BagToSet(inflight) : RemoveLikeCounts(r)
    \/ \E srt \in LikeSortInputs : GetPosts("1", "", srt)
    \/ GetPostsLikes
    \/ GetPostsCount
    \/ \E srt \in LikeSortInputs : GetComments(1, "1", "", srt, NULL)
    \/ GetCommentsQuery
    \/ GetCommentsLikes
    \/ GetCommentsCount

SpecRace == InitRace /\ [][NextRace]_vars

\* ------------------------------------------------------------------------
\* Listings for any value of page and limit
\* ------------------------------------------------------------------------

\* values of req.query.page and req.query.limit: absent, zero, negative,
\* not a number, positive
WindowInputs == {"", "0", "-1", "abc", "2"}

\* getPosts and getComments of post 1, one request after another
NextWindow ==
    \/ \E pg \in WindowInputs, lim \in WindowInputs, srt \in PostSortInputs :
          GetPosts(pg, lim, srt)
    \/ GetPostsLikes
    \/ GetPostsCount
    \/ \E pg \in WindowInputs, lim \in WindowInputs,
          srt \in CommentSortInputs, par \in ParentInputs :
          GetComments(1, pg, lim, srt, par)
    \/ GetCommentsQuery
    \/ GetCommentsLikes
    \/ GetCommentsCount

SpecWindow == Init /\ [][NextWindow]_vars

\* ------------------------------------------------------------------------
\* Completion of addLike
\* ------------------------------------------------------------------------

\* CALL insertLike is rejected before the procedure has run: the inner
\* catch does not find 'Like Already Exists' in the message and rethrows,
\* the outer catch answers 500
InsertLikeFail(r) ==
    /\ BagIn(r, inflight)
    /\ r.op = "addLike"
    /\ r.pc = "call"
    /\ sent' = Issued(3, Response("addLike", AddLikeCatch(ConnectionLost),
                 AddLikeCatchBody(ConnectionLost),
                 r.username, r.entityType, r.entityID, ConnectionLost))
    /\ inflight' = Finish(r)
    /\ UNCHANGED <<Users, PostsData, Comments, Likes, reader, lastAdd,
                   lastInsertId, listed>>

\* a statement of an addLike or removeLike request in flight returns or is
\* rejected
LikeStatementSettles ==
    \E r \in BagToSet(inflight) :
       \/ AddLikeEntity(r)
       \/ InsertLikeFail(r)
       \/ InsertLikeCheck(r)
       \/ InsertLikeInsert(r)
       \/ AddLikeCounts(r)
       \/ AddLikeCountsFail(r)
       \/ RemoveLikeCounts(r)

\* addLike and removeLike requests served one after the other, any
\* statement after the lookups succeeding or failing
NextLive ==
    \/ /\ Quiet
       /\ \E u \in Principals, t \in TypeInputs, e \in LikeIDInputs :
             AddLike(u, t, e)
    \/ /\ Quiet
       /\ \E u \in Usernames, t \in TypeInputs, e \in LikeIDInputs :
             RemoveLike(u, t, e)
    \/ LikeStatementSettles

\* every statement sent to the storage settles: the pool queues a statement
\* until a connection is free (waitForConnections, no queue limit) and the
\* promise of db.query is then resolved or rejected
SpecLive == Init /\ [][NextLive]_vars /\ WF_vars(LikeStatementSettles)

\* ------------------------------------------------------------------------
\* Frame, failure and interleaving properties
\* ------------------------------------------------------------------------

\* the step is taken by an addLike or removeLike request on the triple
LikeStepOn(username, entityType, entityID) ==
    \E r \in BagToSet(inflight) \cup BagToSet(inflight') :
       /\ CopiesIn(r, inflight') # CopiesIn(r, inflight)
       /\ r.op \in {"addLike", "removeLike"}
       /\ r.username = username
       /\ r.entityType = entityType
       /\ r.entityID = entityID

\* C21: a step of addLike or removeLike that changes Likes changes only
\* rows of the calling user on the (entityType, entityID) of the request;
\* the distribution of every other entity, the entity of the other type
\* with the same id included, stays as it was
C21_OnlyOwnRow ==
    [][Likes' # Likes =>
         \E u \in Principals, t \in EntityTypes, e \in LikeIDInputs :
            /\ LikeStepOn(u, t, e)
            /\ \A row \in (DOMAIN Likes) \cup (DOMAIN Likes') :
                  CopiesIn(row, Likes') # CopiesIn(row, Likes) =>
                     /\ row.username = u
                     /\ row.entityType = t
                     /\ row.entityID = e
            /\ \A t2 \in EntityTypes, e2 \in LikeIDInputs :
                  <<t2, e2>> # <<t, e>> =>
                     Distribution(t2, e2)' = Distribution(t2, e2)]_vars

\* a user has removed their like of post 1 and still likes comment 1
C21_Witness ==
    /\ sent.op = "removeLike"
    /\ sent.status = 200
    /\ sent.entityType = "POST"
    /\ sent.entityID = 1
    /\ \E row \in DOMAIN Likes :
          /\ row.username = sent.username
          /\ row.entityType = "COMMENT"
          /\ row.entityID = 1
    /\ sent.body.likes = ZeroLikes

\* the step belongs to getPosts, getPostById or getComments: it moves the
\* handler on or sends its response
ReadStep ==
    \/ reader' # reader
    \/ sent'.op \in {"getPosts", "getPostById", "getComments"}

\* C22: getPosts, getPostById and getComments change no table: Users,
\* PostsData, Comments and Likes are the same after each of their steps,
\* whatever the parameters and whether the call ends in 200 or in an error
C22_ReadsChangeNothing ==
    [][ReadStep =>
          /\ Users' = Users
          /\ PostsData' = PostsData
          /\ Comments' = Comments
          /\ Likes' = Likes]_vars

\* getPostById has returned post 1 while it has a like
C22_Witness ==
    /\ sent.op = "getPostById"
    /\ sent.status = 200
    /\ sent.entityID = 1
    /\ \E row \in DOMAIN Likes :
          row.entityType = "POST" /\ row.entityID = 1
    /\ sent.body.post.likes # ZeroLikes

\* C23: when createPost, addComment, addLike or removeLike, served alone,
\* reports a failure, the tables are as before the request: the post or
\* comment the request inserted is not stored, the like an addLike found
\* absent is absent, the like a removeLike found present is present
C23_FailureCommitsNothing ==
    (sent.op \in {"createPost", "addComment", "addLike", "removeLike"}
       /\ sent.status >= 400) =>
       /\ sent.op = "createPost" =>
             ~\E p \in PostsData : p.postID = sent.entityID
       /\ sent.op = "addComment" =>
             ~\E c \in Comments : c.commentID = sent.entityID
       /\ (sent.op = "addLike" /\ sent.status # 409) =>
             ~\E row \in DOMAIN Likes :
                 /\ row.username = sent.username
                 /\ row.entityType = sent.entityType
                 /\ row.entityID = sent.entityID
       /\ (sent.op = "removeLike" /\ sent.status = 500) =>
             \E row \in DOMAIN Likes :
                 /\ row.username = sent.username
                 /\ row.entityType = sent.entityType
                 /\ row.entityID = sent.entityID

\* the responses that report a validation failure: a missing title or
\* body, a missing comment body or parent, an entity type that is neither
\* POST nor COMMENT
IsValidationError ==
    /\ sent.op \in {"createPost", "addComment", "addLike", "removeLike"}
    /\ sent.status = 400

\* C24: a createPost, addComment, addLike or removeLike request that ends
\* in a validation error has sent no statement to the storage
C24_ValidatedBeforeStorage == IsValidationError => sent.queries = 0

\* C25: in every response of getPosts and of getComments, also when likes
\* are added and removed while the listing is served, the entities come in
\* the order of the metrics the same response reports for them (under
\* controversial the reported totalLikes never increase along the order)
C25_SortedAsReported ==
    IsListing =>
       \A k \in 1..(Len(Listed) - 1) :
          LET a == ReportedKey(Listed[k])
              b == ReportedKey(Listed[k + 1])
          IN  a[1] < b[1] \/ (a[1] = b[1] /\ a[2] <= b[2])

\* C26: the distribution a successful addLike returns counts the like it
\* has just inserted: the count of the caller's leaning is at least 1, also
\* when a removeLike of the same user on the same entity runs between the
\* insert and the refreshed count query
C26_CountsOwnLike ==
    (sent.op = "addLike" /\ sent.status = 201) =>
       sent.body.likes[Users[sent.username]] >= 1

\* C27: whatever the page and limit parameters are, getPosts and
\* getComments run their query with a page >= 1 and a limit >= 1: the
\* request is not answered 500, and the response reports such a page and
\* limit
C27_EffectiveWindow ==
    sent.op \in {"getPosts", "getComments"} =>
       /\ sent.status # 500
       /\ sent.status = 200 =>
             sent.body.currentPage >= 1 /\ PerPage >= 1

AddLikePending == \E r \in BagToSet(inflight) : r.op = "addLike"

\* C29: every addLike request eventually completes with one response,
\* whose status is 201, 400, 404, 409 or 500, whatever insertLike returns
\* or raises: no path of the handler ends without a response
C29_AddLikeResponds ==
    AddLikePending ~>
       (/\ ~AddLikePending
        /\ sent.op = "addLike"
        /\ sent.status \in {201, 400, 404, 409, 500})

\* addLike has answered 201 after its CALL and its count query
C29_Witness ==
    /\ ~AddLikePending
    /\ sent.op = "addLike"
    /\ sent.status = 201
    /\ sent.queries = 4

====
